---- MODULE Spec2Model ----
(***************************************************************************)
(* Model of src/app.py: the staff-transfer tracker.                        *)
(*                                                                         *)
(*   extract_data_from_pdf_camelot / extract_data_from_pdf  (lines 10-56)  *)
(*   transform_extracted_data                               (lines 59-67)  *)
(*   track_transfers                                        (lines 70-79)  *)
(*   the module-level pipeline                              (lines 102-157)*)
(*                                                                         *)
(* Column labels are romanised, because a TLA+ string holds ASCII only:    *)
(*   "kamei" = 課名 (department), "shimei" = 氏名 (name),                  *)
(*   "yakushoku" = 役職 (title); the eight role columns are named below.   *)
(*                                                                         *)
(* A cell text is a sequence of one-character strings, so that str.strip   *)
(* and the CSV conversions are computed, not assumed.  NaN and None are    *)
(* the one-element sequences <<"NaN">> and <<"None">>, which no text       *)
(* equals.  A DataFrame is [cols |-> sequence of labels, rows |-> sequence *)
(* of functions from the labels to cells].                                 *)
(***************************************************************************)
EXTENDS Naturals, Integers, Sequences, FiniteSets, TLC

VARIABLES
    pc,                   \* position in the function or script being run
    st,                   \* the messages given to st.error / st.info, in order
    exc,                  \* "" or the exception that ended the run
    pdf_pages,            \* pdf.pages as pdfplumber reads them: a table or none per page
    file_pos,             \* read position of the upload stream: "start" or "end"
    tmp_exists,           \* whether the temporary PDF file is on disk
    removes,              \* number of os.remove(tmp_path) calls made
    tables,               \* what camelot.read_pdf did: raised, or the tables found
    df,                   \* the DataFrame extract_data_from_pdf holds / returns
    attempts,             \* the strategies tried, each with the stream position it met
    df_prev_raw,          \* lines 105/110
    df_curr_raw,          \* lines 107/111
    df_prev_transformed,  \* lines 119/123
    df_curr_transformed,  \* lines 120/124
    csv_prev,             \* line 132
    csv_curr,             \* line 133
    df_prev_csv,          \* line 135
    df_curr_csv,          \* line 136
    df_transfers,         \* line 144: track_transfers(df_prev_csv, df_curr_csv)
    df_reverse            \* track_transfers(df_curr_csv, df_prev_csv)

vars == <<pc, st, exc, pdf_pages, file_pos, tmp_exists, removes, tables, df,
          attempts, df_prev_raw, df_curr_raw, df_prev_transformed,
          df_curr_transformed, csv_prev, csv_curr, df_prev_csv, df_curr_csv,
          df_transfers, df_reverse>>

extractVars == <<pdf_pages, file_pos, tmp_exists, removes, tables, df, attempts>>
rawVars == <<df_prev_raw, df_curr_raw>>
transformedVars == <<df_prev_transformed, df_curr_transformed>>
csvTextVars == <<csv_prev, csv_curr>>
csvVars == <<df_prev_csv, df_curr_csv>>

-----------------------------------------------------------------------------
(* Values *)

NaN == <<"NaN">>
None == <<"None">>
EmptyStr == <<>>

KAMEI == "kamei"
SHIMEI == "shimei"
YAKUSHOKU == "yakushoku"

\* pd.DataFrame()
EmptyDataFrame == [cols |-> <<>>, rows |-> <<>>]

\* DataFrame.empty: any axis of length 0
IsEmpty(d) == Len(d.cols) = 0 \/ Len(d.rows) = 0

Range(s) == {s[i] : i \in 1..Len(s)}

\* "c in df.columns"
HasColumn(d, c) == c \in Range(d.cols)

\* pd.isna
IsNa(x) == x = NaN \/ x = None

\* the multiset of the elements of a sequence, as a function value -> count
Count(s, v) == Cardinality({i \in 1..Len(s) : s[i] = v})

SameBag(s, t) ==
    /\ Len(s) = Len(t)
    /\ \A v \in Range(s) \cup Range(t) : Count(s, v) = Count(t, v)

-----------------------------------------------------------------------------
(* track_transfers, lines 70-79 *)

\* the pairs <<i, j>> of 1..m \X 1..n, left index first
PairsSeq(m, n) ==
    [k \in 1..(m * n) |-> <<((k - 1) \div n) + 1, ((k - 1) % n) + 1>>]

\* pandas' name for a non-key column of one side of a merge
Suffixed(c, on, others, suffix) ==
    IF c # on /\ c \in others THEN c \o suffix ELSE c

\* a left join, where an inner join was meant: unmatched left rows are kept,
\* their right-hand cells NaN
MergeLeftJoin(left, right, on, lsuffix, rsuffix) ==
    LET lcols == [i \in 1..Len(left.cols) |->
                    Suffixed(left.cols[i], on, Range(right.cols), lsuffix)]
        rkeep == SelectSeq(right.cols, LAMBDA c : c # on)
        rcols == [i \in 1..Len(rkeep) |->
                    Suffixed(rkeep[i], on, Range(left.cols), rsuffix)]
        lrow(i) == [c \in Range(lcols) |->
                      left.rows[i][CHOOSE l \in Range(left.cols) :
                         Suffixed(l, on, Range(right.cols), lsuffix) = c]]
        rrow(j) == [c \in Range(rcols) |->
                      right.rows[j][CHOOSE r \in Range(rkeep) :
                         Suffixed(r, on, Range(left.cols), rsuffix) = c]]
        norow == [c \in Range(rcols) |-> NaN]
        matched == SelectSeq(PairsSeq(Len(left.rows), Len(right.rows)),
                     LAMBDA p : left.rows[p[1]][on] = right.rows[p[2]][on])
        lonely == SelectSeq([i \in 1..Len(left.rows) |-> i],
                     LAMBDA i : \A j \in 1..Len(right.rows) :
                                   left.rows[i][on] # right.rows[j][on])
    IN  [cols |-> lcols \o rcols,
         rows |-> [k \in 1..Len(matched) |->
                     lrow(matched[k][1]) @@ rrow(matched[k][2])]
                  \o [k \in 1..Len(lonely) |-> lrow(lonely[k]) @@ norow]]

\* pd.merge(left, right, on=on, suffixes=(lsuffix, rsuffix)), line 74: an inner
\* join on the key column, left order kept, one row per matching pair; a
\* column name both sides have gets the side's suffix
Merge(left, right, on, lsuffix, rsuffix) ==
    LET lcols == [i \in 1..Len(left.cols) |->
                    Suffixed(left.cols[i], on, Range(right.cols), lsuffix)]
        rkeep == SelectSeq(right.cols, LAMBDA c : c # on)
        rcols == [i \in 1..Len(rkeep) |->
                    Suffixed(rkeep[i], on, Range(left.cols), rsuffix)]
        lrow(i) == [c \in Range(lcols) |->
                      left.rows[i][CHOOSE l \in Range(left.cols) :
                         Suffixed(l, on, Range(right.cols), lsuffix) = c]]
        rrow(j) == [c \in Range(rcols) |->
                      right.rows[j][CHOOSE r \in Range(rkeep) :
                         Suffixed(r, on, Range(left.cols), rsuffix) = c]]
        matched == SelectSeq(PairsSeq(Len(left.rows), Len(right.rows)),
                     LAMBDA p : left.rows[p[1]][on] = right.rows[p[2]][on])
    IN  [cols |-> lcols \o rcols,
         rows |-> [k \in 1..Len(matched) |->
                     lrow(matched[k][1]) @@ rrow(matched[k][2])]]

\* the elementwise != of two pandas columns, line 78: a missing value differs
\* from everything, itself included
NotEqual(a, b) == a = NaN \/ b = NaN \/ a # b

\* df[[c1, c2, ...]]
Project(d, cs) ==
    [cols |-> cs,
     rows |-> [k \in 1..Len(d.rows) |-> [c \in Range(cs) |-> d.rows[k][c]]]]

MSG_SHIMEI == <<"error", "shimei column missing">>
MSG_KAMEI == <<"error", "kamei column missing">>

\* the second column check left out: the filter of line 78 then raises KeyError
TrackTransfersUnchecked(prev, curr) ==
    IF ~HasColumn(prev, SHIMEI) \/ ~HasColumn(curr, SHIMEI)
    THEN [st |-> <<MSG_SHIMEI>>, exc |-> "", df |-> EmptyDataFrame]
    ELSE LET df_merged == Merge(prev, curr, SHIMEI, "_prev", "_curr")
         IN  IF ~HasColumn(df_merged, "kamei_prev") \/ ~HasColumn(df_merged, "kamei_curr")
             THEN [st |-> <<>>, exc |-> "KeyError", df |-> EmptyDataFrame]
             ELSE [st |-> <<>>, exc |-> "",
                   df |-> Project(
                       [cols |-> df_merged.cols,
                        rows |-> SelectSeq(df_merged.rows,
                            LAMBDA r : NotEqual(r["kamei_prev"], r["kamei_curr"]))],
                       <<SHIMEI, "kamei_prev", "kamei_curr">>)]

\* track_transfers(df_prev, df_curr): the messages it gives st.error, and the
\* DataFrame it returns
TrackTransfers(prev, curr) ==
    IF ~HasColumn(prev, SHIMEI) \/ ~HasColumn(curr, SHIMEI)
    THEN [st |-> <<MSG_SHIMEI>>, exc |-> "", df |-> EmptyDataFrame]
    ELSE LET df_merged == Merge(prev, curr, SHIMEI, "_prev", "_curr")
         IN  IF ~HasColumn(df_merged, "kamei_prev") \/ ~HasColumn(df_merged, "kamei_curr")
             THEN [st |-> <<MSG_KAMEI>>, exc |-> "", df |-> EmptyDataFrame]
             ELSE [st |-> <<>>, exc |-> "",
                   df |-> Project(
                       [cols |-> df_merged.cols,
                        rows |-> SelectSeq(df_merged.rows,
                            LAMBDA r : NotEqual(r["kamei_prev"], r["kamei_curr"]))],
                       <<SHIMEI, "kamei_prev", "kamei_curr">>)]

-----------------------------------------------------------------------------
(* Bounded inputs of track_transfers *)

MaxRosterRows == 2

Names == {<<"a">>, <<"b">>}
\* a department read back from CSV is a text or, for an empty field, NaN
Depts == {<<"x">>, <<"y">>, NaN}
Titles == {<<"t">>}

SeqsUpTo(S, n) == UNION {[1..k -> S] : k \in 0..n}

CellsOf(c) == IF c = SHIMEI THEN Names ELSE IF c = KAMEI THEN Depts ELSE Titles

\* the column lists a roster can arrive with: the three columns of a reshaped
\* roster, or some of them missing
RosterColumns ==
    {<<KAMEI, YAKUSHOKU, SHIMEI>>, <<YAKUSHOKU, SHIMEI>>, <<KAMEI, YAKUSHOKU>>,
     <<YAKUSHOKU>>}

FramesOver(cs, n) ==
    {[cols |-> cs, rows |-> rs] :
        rs \in SeqsUpTo({r \in [Range(cs) -> Names \cup Depts \cup Titles] :
                            \A c \in Range(cs) : r[c] \in CellsOf(c)}, n)}

Rosters == {EmptyDataFrame} \cup UNION {FramesOver(cs, MaxRosterRows) : cs \in RosterColumns}

NoFrame == [cols |-> <<>>, rows |-> <<>>, unset |-> TRUE]
NoTables == [raised |-> FALSE, dfs |-> <<>>, unset |-> TRUE]
NoResult == [st |-> <<>>, exc |-> "", df |-> NoFrame]
NoCsv == [header |-> <<>>, lines |-> <<>>, unset |-> TRUE]

-----------------------------------------------------------------------------
(* SpecDiff: track_transfers on two rosters, and on the same two swapped *)

InitDiff ==
    /\ pc = "diff"
    /\ st = <<>>
    /\ exc = ""
    /\ pdf_pages = <<>> /\ file_pos = "start" /\ tmp_exists = FALSE
    /\ removes = 0 /\ tables = NoTables /\ df = NoFrame /\ attempts = <<>>
    /\ df_prev_raw = NoFrame /\ df_curr_raw = NoFrame
    /\ df_prev_transformed = NoFrame /\ df_curr_transformed = NoFrame
    /\ csv_prev = NoCsv /\ csv_curr = NoCsv
    /\ df_prev_csv \in Rosters
    /\ df_curr_csv \in Rosters
    /\ df_transfers = NoResult
    /\ df_reverse = NoResult

\* df_transfers = track_transfers(df_prev_csv, df_curr_csv)
DiffForward ==
    /\ pc = "diff"
    /\ df_transfers' = TrackTransfers(df_prev_csv, df_curr_csv)
    /\ st' = st \o df_transfers'.st
    /\ exc' = df_transfers'.exc
    /\ pc' = "reverse"
    /\ UNCHANGED <<extractVars, rawVars, transformedVars, csvTextVars, csvVars, df_reverse>>

\* track_transfers(df_curr_csv, df_prev_csv)
DiffReverse ==
    /\ pc = "reverse"
    /\ df_reverse' = TrackTransfers(df_curr_csv, df_prev_csv)
    /\ pc' = "compared"
    /\ UNCHANGED <<st, exc, extractVars, rawVars, transformedVars, csvTextVars, csvVars, df_transfers>>

NextDiff == DiffForward \/ DiffReverse

SpecDiff == InitDiff /\ [][NextDiff]_vars

-----------------------------------------------------------------------------
(* Claims about track_transfers (SpecDiff) *)

DiffDone == pc \in {"reverse", "compared"}

BothHaveColumns ==
    /\ HasColumn(df_prev_csv, SHIMEI) /\ HasColumn(df_prev_csv, KAMEI)
    /\ HasColumn(df_curr_csv, SHIMEI) /\ HasColumn(df_curr_csv, KAMEI)

TransferRecord(name, before, after) ==
    [c \in {SHIMEI, "kamei_prev", "kamei_curr"} |->
        IF c = SHIMEI THEN name ELSE IF c = "kamei_prev" THEN before ELSE after]

\* one record per pair of a prev row and a curr row with the same name and
\* departments that are not the same value
PairsThatMoved(prev, curr) ==
    LET moved == SelectSeq(PairsSeq(Len(prev.rows), Len(curr.rows)),
                    LAMBDA p : /\ prev.rows[p[1]][SHIMEI] = curr.rows[p[2]][SHIMEI]
                               /\ prev.rows[p[1]][KAMEI] # curr.rows[p[2]][KAMEI])
    IN  [k \in 1..Len(moved) |->
            TransferRecord(prev.rows[moved[k][1]][SHIMEI],
                           prev.rows[moved[k][1]][KAMEI],
                           curr.rows[moved[k][2]][KAMEI])]

\* C1: for rosters that both have the name and department columns,
\* track_transfers returns exactly one record (name, previous department,
\* current department) per pair of a prev row and a curr row with the same
\* name and different departments, and nothing else; a pair with equal
\* departments yields no record.
C1_OneRecordPerMovedPair ==
    (DiffDone /\ BothHaveColumns) =>
        SameBag(df_transfers.df.rows, PairsThatMoved(df_prev_csv, df_curr_csv))

Swapped(rows) ==
    [k \in 1..Len(rows) |->
        TransferRecord(rows[k][SHIMEI], rows[k]["kamei_curr"], rows[k]["kamei_prev"])]

\* C3: track_transfers(prev, curr) and track_transfers(curr, prev) report the
\* same set of names, and the records of one are the records of the other with
\* previous and current department swapped.
C3_DiffSymmetry ==
    pc = "compared" =>
        /\ {r[SHIMEI] : r \in Range(df_transfers.df.rows)}
              = {r[SHIMEI] : r \in Range(df_reverse.df.rows)}
        /\ SameBag(df_transfers.df.rows, Swapped(df_reverse.df.rows))
        /\ df_transfers.st = df_reverse.st

\* a run where both directions report a transfer, one roster holds a name the
\* other lacks, and a name occurs twice
C3_Witness ==
    /\ pc = "compared"
    /\ Len(df_transfers.df.rows) >= 2
    /\ Len(df_reverse.df.rows) >= 2
    /\ \E i \in 1..Len(df_prev_csv.rows) : \A j \in 1..Len(df_curr_csv.rows) :
          df_prev_csv.rows[i][SHIMEI] # df_curr_csv.rows[j][SHIMEI]

\* C4: when the name column or the department column is absent from prev, from
\* curr or from both, track_transfers signals the missing column (st.error) and
\* returns no record at all.
C4_MissingColumnIsSignalled ==
    (DiffDone /\ ~BothHaveColumns) =>
        /\ df_transfers.st \in {<<MSG_SHIMEI>>, <<MSG_KAMEI>>}
        /\ df_transfers.exc = ""
        /\ df_transfers.df = EmptyDataFrame
        /\ (~HasColumn(df_prev_csv, SHIMEI) \/ ~HasColumn(df_curr_csv, SHIMEI))
              <=> df_transfers.st = <<MSG_SHIMEI>>

\* the department column is missing on one side only, and the two rosters hold
\* rows with the same name
C4_Witness ==
    /\ DiffDone
    /\ HasColumn(df_prev_csv, SHIMEI) /\ HasColumn(df_curr_csv, SHIMEI)
    /\ HasColumn(df_prev_csv, KAMEI) /\ ~HasColumn(df_curr_csv, KAMEI)
    /\ \E i \in 1..Len(df_prev_csv.rows) : \E j \in 1..Len(df_curr_csv.rows) :
          df_prev_csv.rows[i][SHIMEI] = df_curr_csv.rows[j][SHIMEI]
    /\ df_transfers.st = <<MSG_KAMEI>>

-----------------------------------------------------------------------------
(* transform_extracted_data, lines 59-67 *)

\* roles, lines 60-61: 部長, 課長・主幹, 課長補佐, 係長・相当職, 職員, 単労職,
\* 会計年度職員, 臨時職員
roles == <<"bucho", "kacho_shukan", "kacho_hosa", "kakaricho_sotoshoku",
           "shokuin", "tanroshoku", "kaikei_nendo_shokuin", "rinji_shokuin">>

\* a column label as a cell value (the 役職 column of the melted table)
LabelText(label) == <<label>>

Whitespace == {" "}

RECURSIVE LStrip(_)
LStrip(s) == IF s # <<>> /\ Head(s) \in Whitespace THEN LStrip(Tail(s)) ELSE s

RECURSIVE RStrip(_)
RStrip(s) ==
    IF s # <<>> /\ s[Len(s)] \in Whitespace THEN RStrip(SubSeq(s, 1, Len(s) - 1)) ELSE s

\* str.strip()
Strip(s) == RStrip(LStrip(s))

\* Series.str.strip(): missing stays missing
StrStrip(x) == IF IsNa(x) THEN NaN ELSE Strip(x)

\* df.melt(id_vars=[id_var], value_vars=value_vars, var_name=.., value_name=..),
\* line 65: one row per (value column, source row), value column first
Melt(d, id_var, value_vars, var_name, value_name) ==
    LET n == Len(d.rows)
    IN  [cols |-> <<id_var, var_name, value_name>>,
         rows |-> [k \in 1..(Len(value_vars) * n) |->
                     LET v == value_vars[((k - 1) \div n) + 1]
                         r == d.rows[((k - 1) % n) + 1]
                     IN  [c \in {id_var, var_name, value_name} |->
                            IF c = id_var THEN r[id_var]
                            ELSE IF c = var_name THEN LabelText(v)
                            ELSE r[v]]]]

MSG_NO_KAMEI == <<"error", "kamei column not found in the extracted data">>

\* transform_extracted_data(df): the message it gives st.error, the exception
\* it raises ("" when none), and the DataFrame it returns
TransformExtractedData(d) ==
    IF ~HasColumn(d, KAMEI)
    THEN [st |-> <<MSG_NO_KAMEI>>, exc |-> "", df |-> EmptyDataFrame]
    ELSE IF ~(Range(roles) \subseteq Range(d.cols))
    THEN \* melt: "The following 'value_vars' are not present in the DataFrame"
         [st |-> <<>>, exc |-> "KeyError", df |-> EmptyDataFrame]
    ELSE LET df_melt == Melt(d, KAMEI, roles, YAKUSHOKU, SHIMEI)
         IN  [st |-> <<>>, exc |-> "",
              df |-> [cols |-> df_melt.cols,
                      rows |-> SelectSeq(df_melt.rows,
                          LAMBDA r : ~IsNa(r[SHIMEI]) /\ StrStrip(r[SHIMEI]) # EmptyStr)]]

-----------------------------------------------------------------------------
(* The module-level pipeline, lines 102-157 *)

\* df.applymap(lambda x: "" if pd.isna(x) else str(x)), lines 110-111, 123-124
Stringify(d) ==
    [cols |-> d.cols,
     rows |-> [k \in 1..Len(d.rows) |->
                 [c \in Range(d.cols) |->
                     IF IsNa(d.rows[k][c]) THEN EmptyStr ELSE d.rows[k][c]]]]

\* df.to_csv(index=False), lines 132-133: the header line and one line of
\* fields per row; a missing value is written as the empty field
ToCsv(d) ==
    [header |-> d.cols,
     lines |-> [k \in 1..Len(d.rows) |->
                  [i \in 1..Len(d.cols) |->
                      IF IsNa(d.rows[k][d.cols[i]]) THEN EmptyStr
                      ELSE d.rows[k][d.cols[i]]]]]

\* the fields pd.read_csv reads as missing (its default na_values, as far as
\* the modelled alphabet can spell them)
NaValues == {EmptyStr, <<"N", "A">>, <<"n", "a", "n">>}

\* pd.read_csv(StringIO(text)), lines 135-136: no header line to parse raises
\* EmptyDataError; a field among the NA strings is read as NaN
ReadCsv(text) ==
    IF Len(text.header) = 0
    THEN [exc |-> "EmptyDataError", df |-> EmptyDataFrame]
    ELSE [exc |-> "",
          df |-> [cols |-> text.header,
                  rows |-> [k \in 1..Len(text.lines) |->
                              [c \in Range(text.header) |->
                                  LET i == CHOOSE i \in 1..Len(text.header) :
                                              text.header[i] = c
                                  IN  IF text.lines[k][i] \in NaValues THEN NaN
                                      ELSE text.lines[k][i]]]]]

MSG_NO_TRANSFER == <<"info", "no department transfer detected">>
MSG_RESULT == <<"dataframe", "transfer tracking result">>

\* lines 110-111
StringifyRaw ==
    /\ pc = "stringify_raw"
    /\ df_prev_raw' = Stringify(df_prev_raw)
    /\ df_curr_raw' = Stringify(df_curr_raw)
    /\ pc' = "transform"
    /\ UNCHANGED <<st, exc, extractVars, transformedVars, csvTextVars, csvVars,
                   df_transfers, df_reverse>>

\* lines 119-120: an exception raised by the first call ends the script
TransformBoth ==
    /\ pc = "transform"
    /\ LET p == TransformExtractedData(df_prev_raw)
           c == TransformExtractedData(df_curr_raw)
       IN  IF p.exc # ""
           THEN /\ st' = st \o p.st
                /\ exc' = p.exc
                /\ pc' = "raised"
                /\ UNCHANGED transformedVars
           ELSE IF c.exc # ""
           THEN /\ st' = st \o p.st \o c.st
                /\ exc' = c.exc
                /\ pc' = "raised"
                /\ df_prev_transformed' = p.df
                /\ UNCHANGED df_curr_transformed
           ELSE /\ st' = st \o p.st \o c.st
                /\ df_prev_transformed' = p.df
                /\ df_curr_transformed' = c.df
                /\ pc' = "stringify_transformed"
                /\ UNCHANGED exc
    /\ UNCHANGED <<extractVars, rawVars, csvTextVars, csvVars, df_transfers, df_reverse>>

\* lines 123-124
StringifyTransformed ==
    /\ pc = "stringify_transformed"
    /\ df_prev_transformed' = Stringify(df_prev_transformed)
    /\ df_curr_transformed' = Stringify(df_curr_transformed)
    /\ pc' = "to_csv"
    /\ UNCHANGED <<st, exc, extractVars, rawVars, csvTextVars, csvVars,
                   df_transfers, df_reverse>>

\* lines 132-133
WriteCsv ==
    /\ pc = "to_csv"
    /\ csv_prev' = ToCsv(df_prev_transformed)
    /\ csv_curr' = ToCsv(df_curr_transformed)
    /\ pc' = "read_csv"
    /\ UNCHANGED <<st, exc, extractVars, rawVars, transformedVars, csvVars,
                   df_transfers, df_reverse>>

\* lines 135-136
ReloadCsv ==
    /\ pc = "read_csv"
    /\ LET p == ReadCsv(csv_prev)
           c == ReadCsv(csv_curr)
       IN  IF p.exc # ""
           THEN /\ exc' = p.exc /\ pc' = "raised" /\ UNCHANGED csvVars
           ELSE IF c.exc # ""
           THEN /\ exc' = c.exc /\ pc' = "raised"
                /\ df_prev_csv' = p.df /\ UNCHANGED df_curr_csv
           ELSE /\ df_prev_csv' = p.df /\ df_curr_csv' = c.df
                /\ pc' = "track" /\ UNCHANGED exc
    /\ UNCHANGED <<st, extractVars, rawVars, transformedVars, csvTextVars,
                   df_transfers, df_reverse>>

\* line 144
Track ==
    /\ pc = "track"
    /\ df_transfers' = TrackTransfers(df_prev_csv, df_curr_csv)
    /\ st' = st \o df_transfers'.st
    /\ pc' = "report"
    /\ UNCHANGED <<exc, extractVars, rawVars, transformedVars, csvTextVars, csvVars,
                   df_reverse>>

\* lines 146-157
Report ==
    /\ pc = "report"
    /\ st' = st \o (IF IsEmpty(df_transfers.df) THEN <<MSG_NO_TRANSFER>> ELSE <<MSG_RESULT>>)
    /\ pc' = "done"
    /\ UNCHANGED <<exc, extractVars, rawVars, transformedVars, csvTextVars, csvVars,
                   df_transfers, df_reverse>>

-----------------------------------------------------------------------------
(* SpecPipeline: the script from line 110 on, for two extracted tables *)

MaxRawRows == 2

\* an extracted row: the department cell, two of the role cells, the other
\* role cells empty
RawRow(cs, dept, bucho, shokuin) ==
    [c \in Range(cs) |->
        IF c = KAMEI THEN dept
        ELSE IF c = "bucho" THEN bucho
        ELSE IF c = "shokuin" THEN shokuin
        ELSE EmptyStr]

RawRows(cs, depts, buchos, shokuins) ==
    {RawRow(cs, d, b, s) : d \in depts, b \in buchos, s \in shokuins}

RawTablesOver(cs, depts, buchos, shokuins, n) ==
    {[cols |-> cs, rows |-> rs] : rs \in SeqsUpTo(RawRows(cs, depts, buchos, shokuins), n)}

\* what extraction can hand to the pipeline: nothing, a full table, a table
\* without the department column, a table without some role columns
PipelineTables ==
    {EmptyDataFrame}
    \cup RawTablesOver(<<KAMEI>> \o roles,
                       {<<"x">>, <<"y">>, EmptyStr}, {None, <<"a">>}, {EmptyStr, <<"b">>},
                       MaxRawRows)
    \cup RawTablesOver(roles, {EmptyStr}, {None, <<"a">>}, {EmptyStr}, 1)
    \cup RawTablesOver(<<KAMEI, "bucho">>, {<<"x">>}, {<<"a">>}, {EmptyStr}, 1)

InitPipeline ==
    /\ pc = "stringify_raw"
    /\ st = <<>>
    /\ exc = ""
    /\ pdf_pages = <<>> /\ file_pos = "start" /\ tmp_exists = FALSE
    /\ removes = 0 /\ tables = NoTables /\ df = NoFrame /\ attempts = <<>>
    /\ df_prev_raw \in PipelineTables
    /\ df_curr_raw \in PipelineTables
    /\ df_prev_transformed = NoFrame /\ df_curr_transformed = NoFrame
    /\ csv_prev = NoCsv /\ csv_curr = NoCsv
    /\ df_prev_csv = NoFrame /\ df_curr_csv = NoFrame
    /\ df_transfers = NoResult
    /\ df_reverse = NoResult

NextPipeline ==
    \/ StringifyRaw
    \/ TransformBoth
    \/ StringifyTransformed
    \/ WriteCsv
    \/ ReloadCsv
    \/ Track
    \/ Report

SpecPipeline == InitPipeline /\ [][NextPipeline]_vars

-----------------------------------------------------------------------------
(* Claims about the pipeline (SpecPipeline) *)

\* the (name, department) pairs of a reshaped roster
IdentityDeptPairs(d) == {<<r[SHIMEI], r[KAMEI]>> : r \in Range(d.rows)}

PipelineDiffed == pc \in {"report", "done"}

\* C2: when prev and curr hold the same (name, department) pairs, the diff the
\* pipeline computes (CSV round trip, then track_transfers) is empty, also when
\* a name occurs in several rows and when a department is empty.
C2_NoOpDiffIsEmpty ==
    (PipelineDiffed /\ IdentityDeptPairs(df_prev_transformed)
                          = IdentityDeptPairs(df_curr_transformed))
        => df_transfers.df.rows = <<>>

LacksDepartment(d) == ~HasColumn(d, KAMEI)

-----------------------------------------------------------------------------
(* SpecReshape: transform_extracted_data on one extracted table *)

MaxReshapeRows == 2

\* tables with the department column and all, some or none of the role
\* columns, and tables without the department column; cells with and without
\* surrounding whitespace, empty, all whitespace, missing
ReshapeTables ==
    UNION {RawTablesOver(cs, {<<"x">>},
                         {EmptyStr, <<" ">>, <<"a">>, <<" ", "a", " ">>, NaN},
                         {EmptyStr, <<"b">>}, MaxReshapeRows) :
              cs \in {<<KAMEI>> \o roles, <<KAMEI, "bucho", "shokuin">>, <<KAMEI>>, roles}}

InitReshape ==
    /\ pc = "reshape"
    /\ st = <<>>
    /\ exc = ""
    /\ pdf_pages = <<>> /\ file_pos = "start" /\ tmp_exists = FALSE
    /\ removes = 0 /\ tables = NoTables /\ df = NoFrame /\ attempts = <<>>
    /\ df_prev_raw \in ReshapeTables
    /\ df_curr_raw = NoFrame
    /\ df_prev_transformed = NoFrame /\ df_curr_transformed = NoFrame
    /\ csv_prev = NoCsv /\ csv_curr = NoCsv
    /\ df_prev_csv = NoFrame /\ df_curr_csv = NoFrame
    /\ df_transfers = NoResult
    /\ df_reverse = NoResult

\* df_prev_transformed = transform_extracted_data(df_prev_raw)
Reshape ==
    /\ pc = "reshape"
    /\ LET r == TransformExtractedData(df_prev_raw)
       IN  /\ st' = st \o r.st
           /\ exc' = r.exc
           /\ df_prev_transformed' = r.df
           /\ pc' = IF r.exc = "" THEN "reshaped" ELSE "raised"
    /\ UNCHANGED <<extractVars, rawVars, df_curr_transformed, csvTextVars, csvVars,
                   df_transfers, df_reverse>>

NextReshape == Reshape

SpecReshape == InitReshape /\ [][NextReshape]_vars

\* one entry (department, title, trimmed name) per row and per configured role
\* column the table has whose cell is not empty after trimming, role column first
EntriesOf(d) ==
    LET present == SelectSeq(roles, LAMBDA r : HasColumn(d, r))
        n == Len(d.rows)
        all == [k \in 1..(Len(present) * n) |->
                  LET v == present[((k - 1) \div n) + 1]
                      r == d.rows[((k - 1) % n) + 1]
                  IN  [c \in {KAMEI, YAKUSHOKU, SHIMEI} |->
                         IF c = KAMEI THEN r[KAMEI]
                         ELSE IF c = YAKUSHOKU THEN LabelText(v)
                         ELSE StrStrip(r[v])]]
    IN  SelectSeq(all, LAMBDA e : e[SHIMEI] # NaN /\ e[SHIMEI] # EmptyStr)

\* C8: for a table with the department column and any subset of the role
\* columns, transform_extracted_data emits exactly one entry (department, role
\* column, trimmed cell text) per row and present role column whose cell is
\* non-empty after trimming, and none for an empty, missing or all-whitespace
\* cell; every emitted name is non-empty and has no surrounding whitespace.
C8_OneTrimmedEntryPerFilledCell ==
    (pc \in {"reshaped", "raised"} /\ HasColumn(df_prev_raw, KAMEI)) =>
        /\ exc = ""
        /\ SameBag(df_prev_transformed.rows, EntriesOf(df_prev_raw))
        /\ \A r \in Range(df_prev_transformed.rows) :
              r[SHIMEI] # EmptyStr /\ Strip(r[SHIMEI]) = r[SHIMEI]

-----------------------------------------------------------------------------
(* extract_data_from_pdf_camelot and extract_data_from_pdf, lines 10-56 *)
(* Here a column label is the text of a header cell.                     *)

Max(a, b) == IF a >= b THEN a ELSE b

RECURSIVE Flatten(_)
Flatten(ss) == IF ss = <<>> THEN <<>> ELSE Head(ss) \o Flatten(Tail(ss))

RECURSIVE MaxWidth(_)
MaxWidth(rows) == IF rows = <<>> THEN 0 ELSE Max(Len(Head(rows)), MaxWidth(Tail(rows)))

\* a row of a narrower table in the concatenated frame: NaN in the columns it lacks
Padded(row, w) == [i \in 1..w |-> IF i <= Len(row) THEN row[i] ELSE NaN]

\* pd.concat(df_list, ignore_index=True), lines 30-31: all rows of all tables
\* in order, over the union of their (positional) columns
Concat(dfs) ==
    LET rows == Flatten(dfs)
    IN  [k \in 1..Len(rows) |-> Padded(rows[k], MaxWidth(rows))]

\* dict(zip(header, row)): one key per distinct label, the last cell under a
\* label wins, cells beyond the shorter of the two are ignored
DictZip(header, row) ==
    LET n == IF Len(header) <= Len(row) THEN Len(header) ELSE Len(row)
    IN  [l \in {header[i] : i \in 1..n} |->
            row[CHOOSE i \in 1..n : header[i] = l /\ \A j \in (i + 1)..n : header[j] # l]]

\* lines 34-35: the first row of the concatenated frame becomes the header,
\* every other row a record
FrameOfCamelot(dfs) ==
    LET df_merged == Concat(dfs)
        header == df_merged[1]
    IN  [cols |-> header,
         rows |-> [k \in 1..(Len(df_merged) - 1) |-> DictZip(header, df_merged[k + 1])]]

\* cell.strip() if isinstance(cell, str) else cell, lines 50 and 52
StripCell(c) == IF IsNa(c) THEN c ELSE Strip(c)

StripRow(row) == [i \in 1..Len(row) |-> StripCell(row[i])]

\* the records lines 51-54 without the test of line 53: zip pairs what it can
RecordsOfTableUnchecked(table) ==
    LET header == StripRow(table[1])
        rows == [k \in 1..(Len(table) - 1) |-> StripRow(table[k + 1])]
    IN  [k \in 1..Len(rows) |-> [keys |-> header, dict |-> DictZip(header, rows[k])]]

\* lines 49-54 for one page's table: a record per row as long as the header
RecordsOfTable(table) ==
    LET header == StripRow(table[1])
        rows == [k \in 1..(Len(table) - 1) |-> StripRow(table[k + 1])]
        kept == SelectSeq(rows, LAMBDA row : Len(row) = Len(header))
    IN  [k \in 1..Len(kept) |-> [keys |-> header, dict |-> DictZip(header, kept[k])]]

\* lines 45-54: the records of all pages in page order; a page without a table
\* (extract_table() gave None) adds nothing
RECURSIVE RecordsOfPages(_)
RecordsOfPages(pages) ==
    IF pages = <<>> THEN <<>>
    ELSE (IF Head(pages) = <<>> THEN <<>> ELSE RecordsOfTable(Head(pages)))
         \o RecordsOfPages(Tail(pages))

RECURSIVE Distinct(_)
Distinct(s) ==
    IF s = <<>> THEN <<>>
    ELSE LET rest == Distinct(SubSeq(s, 1, Len(s) - 1))
         IN  IF s[Len(s)] \in Range(rest) THEN rest ELSE Append(rest, s[Len(s)])

\* pd.DataFrame(records), line 55: the columns are the keys of all records in
\* order of first appearance; a record without a key has NaN there
FrameOfRecords(records) ==
    LET cols == Distinct(Flatten([k \in 1..Len(records) |-> records[k].keys]))
    IN  [cols |-> cols,
         rows |-> [k \in 1..Len(records) |->
                     [c \in Range(cols) |->
                         IF c \in DOMAIN records[k].dict THEN records[k].dict[c] ELSE NaN]]]

MSG_CAMELOT_RAISED == <<"error", "error during extraction with Camelot">>
MSG_CAMELOT_NO_TABLE == <<"error", "Camelot could not detect a table">>
MSG_TRY_PDFPLUMBER == <<"info", "Camelot could not extract, trying pdfplumber">>

-----------------------------------------------------------------------------
(* Bounded inputs of extraction: what the two libraries report *)

MaxTables == 2
MaxPages == 2
MaxDataRows == 1

\* a Camelot table is rectangular: a first row and up to MaxDataRows more
CamelotTables ==
    {<<<<<<"k">>, <<"s">>>>>> \o rs :
        rs \in SeqsUpTo({<<<<"x">>, <<"a">>>>, <<<<"y">>, EmptyStr>>}, MaxDataRows)}
    \cup {<<<<<<"k">>>>>> \o rs : rs \in SeqsUpTo({<<<<"x">>>>}, MaxDataRows)}

\* camelot.read_pdf raises, or returns zero or more tables
CamelotOutcomes ==
    {[raised |-> TRUE, dfs |-> <<>>]}
    \cup {[raised |-> FALSE, dfs |-> ts] : ts \in SeqsUpTo(CamelotTables, MaxTables)}

\* a pdfplumber table: a first row, and rows that may be shorter than it
PlumberTables ==
    {<<h>> \o rs :
        h \in {<<<<" ", "k">>, <<"s">>>>, <<<<"k">>, <<"t", " ">>>>},
        rs \in SeqsUpTo({<<<<"x">>, <<" ", "a">>>>, <<<<"x">>, None>>, <<<<"y">>>>},
                        MaxDataRows)}

\* page.extract_table() per page: <<>> stands for None (no table on the page)
PlumberDocuments == SeqsUpTo({<<>>} \cup PlumberTables, MaxPages)

-----------------------------------------------------------------------------
(* SpecExtract: one call of extract_data_from_pdf, statement by statement *)

InitExtract ==
    /\ pc = "save_temp"
    /\ st = <<>>
    /\ exc = ""
    /\ pdf_pages = <<>> /\ file_pos = "start" /\ tmp_exists = FALSE
    /\ removes = 0 /\ tables = NoTables /\ df = NoFrame /\ attempts = <<>>
    /\ df_prev_raw = NoFrame /\ df_curr_raw = NoFrame
    /\ df_prev_transformed = NoFrame /\ df_curr_transformed = NoFrame
    /\ csv_prev = NoCsv /\ csv_curr = NoCsv
    /\ df_prev_csv = NoFrame /\ df_curr_csv = NoFrame
    /\ df_transfers = NoResult
    /\ df_reverse = NoResult

pipelineVars == <<rawVars, transformedVars, csvTextVars, csvVars, df_transfers, df_reverse>>

\* lines 41, 12-14: the stream is read to its end into a temporary file that
\* outlives the with block (delete=False)
SaveTemp ==
    /\ pc = "save_temp"
    /\ attempts' = Append(attempts, <<"camelot", file_pos>>)
    /\ file_pos' = "end"
    /\ tmp_exists' = TRUE
    /\ pc' = "read_pdf"
    /\ UNCHANGED <<st, exc, pdf_pages, removes, tables, df, pipelineVars>>

\* lines 16-17
ReadPdf ==
    /\ pc = "read_pdf"
    /\ \E outcome \in CamelotOutcomes :
          /\ tables' = outcome
          /\ pc' = IF outcome.raised THEN "except" ELSE "remove"
    /\ UNCHANGED <<st, exc, pdf_pages, file_pos, tmp_exists, removes, df, attempts,
                   pipelineVars>>

\* the except branch without its os.remove
HandleErrorKeepsFile ==
    /\ pc = "except"
    /\ st' = Append(st, MSG_CAMELOT_RAISED)
    /\ df' = EmptyDataFrame
    /\ pc' = "camelot_returned"
    /\ UNCHANGED <<exc, pdf_pages, file_pos, tmp_exists, removes, tables, attempts,
                   pipelineVars>>

\* lines 18-21
HandleError ==
    /\ pc = "except"
    /\ st' = Append(st, MSG_CAMELOT_RAISED)
    /\ tmp_exists' = FALSE
    /\ removes' = removes + 1
    /\ df' = EmptyDataFrame
    /\ pc' = "camelot_returned"
    /\ UNCHANGED <<exc, pdf_pages, file_pos, tables, attempts, pipelineVars>>

\* line 23
RemoveTemp ==
    /\ pc = "remove"
    /\ tmp_exists' = FALSE
    /\ removes' = removes + 1
    /\ pc' = "build"
    /\ UNCHANGED <<st, exc, pdf_pages, file_pos, tables, df, attempts, pipelineVars>>

\* lines 25-36
BuildFrame ==
    /\ pc = "build"
    /\ IF Len(tables.dfs) = 0
       THEN /\ st' = Append(st, MSG_CAMELOT_NO_TABLE)
            /\ df' = EmptyDataFrame
       ELSE /\ df' = FrameOfCamelot(tables.dfs)
            /\ UNCHANGED st
    /\ pc' = "camelot_returned"
    /\ UNCHANGED <<exc, pdf_pages, file_pos, tmp_exists, removes, tables, attempts,
                   pipelineVars>>

\* the fallback taken without rewinding the stream
CheckEmptyNoSeek ==
    /\ pc = "camelot_returned"
    /\ IF IsEmpty(df)
       THEN /\ st' = Append(st, MSG_TRY_PDFPLUMBER)
            /\ pc' = "pdfplumber"
       ELSE /\ pc' = "returned"
            /\ UNCHANGED st
    /\ UNCHANGED <<exc, pdf_pages, file_pos, tmp_exists, removes, tables, df, attempts,
                   pipelineVars>>

\* lines 42-44 and 56
CheckEmpty ==
    /\ pc = "camelot_returned"
    /\ IF IsEmpty(df)
       THEN /\ st' = Append(st, MSG_TRY_PDFPLUMBER)
            /\ file_pos' = "start"
            /\ pc' = "pdfplumber"
       ELSE /\ pc' = "returned"
            /\ UNCHANGED <<st, file_pos>>
    /\ UNCHANGED <<exc, pdf_pages, tmp_exists, removes, tables, df, attempts, pipelineVars>>

\* lines 45-56
PlumberExtract ==
    /\ pc = "pdfplumber"
    /\ \E pages \in PlumberDocuments :
          /\ pdf_pages' = pages
          /\ df' = FrameOfRecords(RecordsOfPages(pages))
    /\ attempts' = Append(attempts, <<"pdfplumber", file_pos>>)
    /\ pc' = "returned"
    /\ UNCHANGED <<st, exc, file_pos, tmp_exists, removes, tables, pipelineVars>>

NextExtract ==
    \/ SaveTemp
    \/ ReadPdf
    \/ HandleError
    \/ RemoveTemp
    \/ BuildFrame
    \/ CheckEmpty
    \/ PlumberExtract

SpecExtract == InitExtract /\ [][NextExtract]_vars

-----------------------------------------------------------------------------
(* Claims about extraction (SpecExtract) *)

Returned == pc = "returned"
ByCamelot == Len(attempts) = 1
ByPdfplumber == Len(attempts) = 2

\* the tables of the strategy whose result is returned
TablesUsed ==
    IF ByCamelot THEN tables.dfs ELSE SelectSeq(pdf_pages, LAMBDA t : t # <<>>)

RowsMatchHeader(ts) ==
    \A t \in Range(ts) : \A k \in 1..Len(t) : Len(t[k]) = Len(t[1])

RECURSIVE DataRowCount(_)
DataRowCount(ts) ==
    IF ts = <<>> THEN 0 ELSE (Len(Head(ts)) - 1) + DataRowCount(Tail(ts))

\* C5: when every row has as many cells as the header of its table, the table
\* extract_data_from_pdf returns has as many rows as the document's tables have
\* data rows in total, whichever strategy produced it and however many tables
\* there are: no data row dropped, no header row counted as data.
C5_RowCountIsDataRowCount ==
    (Returned /\ RowsMatchHeader(TablesUsed)) => Len(df.rows) = DataRowCount(TablesUsed)

\* the data rows of the pages, as <<page, row>> positions in reading order
DataRowsOf(pages) ==
    Flatten([p \in 1..Len(pages) |->
                [k \in 1..(Len(pages[p]) - 1) |-> <<p, k + 1>>]])

\* the data rows with as many cells as the header of their own table
KeptRowsOf(pages) ==
    SelectSeq(DataRowsOf(pages),
              LAMBDA w : Len(pages[w[1]][w[2]]) = Len(pages[w[1]][1]))

HeaderLabels(table) == {StripCell(table[1][i]) : i \in 1..Len(table[1])}

LabelsOf(record) == DOMAIN record

\* what both statements of C6 say of a result Camelot produced: every row after
\* the first of the concatenated tables is a record, labelled by that first row
CamelotRecordsHaveHeaderLabels ==
    /\ Len(df.rows) = Len(Flatten(tables.dfs)) - 1
    /\ \A k \in 1..Len(df.rows) : LabelsOf(df.rows[k]) = Range(df.cols)
    /\ Range(df.cols) = Range(Concat(tables.dfs)[1])

\* C6 as stated: a data row becomes a record only when its cell count equals
\* that of the header of its own table, other rows are dropped, and every
\* record of the returned table has exactly the labels of the header row it was
\* built with.
C6_RecordHasItsHeaderLabels ==
    (Returned /\ ByPdfplumber) =>
        LET kept == KeptRowsOf(pdf_pages)
        IN  /\ Len(df.rows) = Len(kept)
            /\ \A k \in 1..Len(kept) :
                  LabelsOf(df.rows[k]) = HeaderLabels(pdf_pages[kept[k][1]])

\* C6 amended: a data row becomes a record only when its cell count equals that
\* of the header of its own table, other rows are dropped; every record of the
\* returned table has the labels of the header row it was built with and, in a
\* pdfplumber result, also the labels of the headers of the other tables that
\* gave a record: under the labels of its own header the (trimmed) cells of
\* its row, under every other label a missing value.
C6_RecordHasUnionOfHeaderLabels ==
    /\ (Returned /\ ByPdfplumber) =>
          LET kept == KeptRowsOf(pdf_pages)
              all == UNION {HeaderLabels(pdf_pages[kept[k][1]]) : k \in 1..Len(kept)}
          IN  /\ Len(df.rows) = Len(kept)
              /\ \A k \in 1..Len(kept) :
                    LET table == pdf_pages[kept[k][1]]
                        row == pdf_pages[kept[k][1]][kept[k][2]]
                    IN  /\ LabelsOf(df.rows[k]) = all
                        /\ \A l \in all \ HeaderLabels(table) : IsNa(df.rows[k][l])
                        /\ \A i \in 1..Len(row) :
                              \E j \in i..Len(row) :
                                 /\ StripCell(table[1][j]) = StripCell(table[1][i])
                                 /\ df.rows[k][StripCell(table[1][i])] = StripCell(row[j])
    /\ (Returned /\ ByCamelot) => CamelotRecordsHaveHeaderLabels

\* pdfplumber returned two records built with different headers
C6_Witness ==
    /\ Returned /\ ByPdfplumber
    /\ Len(df.rows) = 2
    /\ Len(pdf_pages) = 2
    /\ pdf_pages[1] # <<>> /\ pdf_pages[2] # <<>>
    /\ HeaderLabels(pdf_pages[1]) # HeaderLabels(pdf_pages[2])

\* the first strategy came back empty: it raised, found no table, or found no
\* row after the header row
CamelotCameBackEmpty ==
    tables.raised \/ Len(tables.dfs) = 0 \/ Len(Flatten(tables.dfs)) <= 1

AttemptOrder ==
    /\ Len(attempts) <= 2
    /\ Len(attempts) >= 1 => attempts[1] = <<"camelot", "start">>
    /\ Len(attempts) = 2 => attempts[2] = <<"pdfplumber", "start">>
    /\ pc = "pdfplumber" => (Len(attempts) = 1 /\ CamelotCameBackEmpty /\ file_pos = "start")
    /\ Returned => (ByPdfplumber <=> CamelotCameBackEmpty)
    /\ (Returned /\ ByCamelot) => ~IsEmpty(df)

\* C7: Camelot is always tried first; pdfplumber is tried if and only if
\* Camelot's result is empty (no table, an exception, or no data row), and then
\* on the stream rewound to its start; a non-empty Camelot result is returned
\* unchanged.
C7_FallbackIffFirstEmpty ==
    /\ []AttemptOrder
    /\ [][(pc = "camelot_returned" /\ ~IsEmpty(df)) => (pc' = "returned" /\ df' = df)]_vars

\* the fallback ran after Camelot found a table of a header row only
C7_Witness ==
    /\ Returned /\ ByPdfplumber
    /\ ~tables.raised /\ Len(tables.dfs) = 1
    /\ ~IsEmpty(df)

\* C10: on every return path of extract_data_from_pdf_camelot (exception, no
\* table, tables) the temporary file has been removed exactly once, and it is
\* never removed twice.
C10_TempFileRemovedOnce ==
    /\ removes <= 1
    /\ tmp_exists => removes = 0
    /\ pc \in {"camelot_returned", "pdfplumber", "returned"} =>
          (~tmp_exists /\ removes = 1)

\* the exception path has returned
C10_Witness ==
    /\ pc = "camelot_returned"
    /\ tables.raised
    /\ removes = 1 /\ ~tmp_exists

====
